---- MODULE Spec2Model ----
(***************************************************************************)
(* Mesh reconstruction and extrusion pipeline of ProSolve Simulation:      *)
(* connectivity normalizer, group extractors, beam sweep builder and the   *)
(* scene assemblers (single-file pipeline and multi-file merge).           *)
(***************************************************************************)
EXTENDS Integers, Sequences, FiniteSets, TLC

(***************************************************************************)
(* Bounds of the model.                                                    *)
(***************************************************************************)
MaxId == 2
MaxFlat == 4
MaxCells == 3
ExMaxId == 1
MaxGroupCells == 2
MaxFileGroups == 2
MaxSegs == 3
MaxFilePts == 2
MaxFxCells == 1
MaxItems == 2
MaxCoord == 2
MaxThickness == 2
MaxOffset == 2

(***************************************************************************)
(* State.  Each part of the pipeline has its own variables; a              *)
(* specification runs one part and leaves the others idle.                 *)
(***************************************************************************)
VARIABLES
    \* -- connectivity normalizer, one call of process_connectivity
    nz_pc,          \* "input" before the call, "done" after it
    nz_mode,        \* how the input was built: "encoded", "stride1" or "raw"
    nz_tuples,      \* the tuples the input was encoded from (encoded mode)
    nz_flat,        \* argument of process_connectivity
    nz_n,           \* argument of process_connectivity
    nz_result,      \* what the call produced
    \* -- group extractors, one extraction of one mesh file
    ex_pc,          \* "input", or the extractor that has run
    ex_groups,      \* what the mesh-topology provider holds for the file
    ex_payload,     \* per group, the connectivity the extractor delivers
    \* -- beam sweep builder, one line group
    bm_pc,          \* "input", "normalized" or "swept"
    bm_conn,        \* beam_data['connectivity']: the group's segments
    bm_section,     \* section_mesh: the cross-section profile
    bm_norm,        \* result of normalize_line_connectivity
    bm_res,         \* result of extrude_beam_memory
    \* -- scene assemblers, one request
    sc_handler,     \* the handler that runs the request
    sc_pc,          \* "run", then "success" or "error"
    pl_points,      \* med_to_vtk_pipeline: points of the file's full mesh
    pl_pending,     \* med_to_vtk_pipeline: groups of the file not yet visited
    final_points,   \* med_to_vtk_pipeline: the merged points
    final_cells,    \* med_to_vtk_pipeline: component name -> component
    mg_pending,     \* multi-file merge: files not yet visited
    combined_points, \* multi-file merge: the merged points
    combined_cells, \* multi-file merge: component name -> component
    point_offset,   \* multi-file merge: the running offset
    \* -- history of the request, no state of the program
    sc_groups,      \* group -> how the pipeline treated it
    sc_src,         \* component name -> the group it was built from
    sc_trace,       \* component name -> its local connectivity and the
                    \*   position of its first point in the merged points
    sc_last,        \* what the last step did and the sizes before it
    sc_produced,    \* history: the number of components produced so far
    \* -- extraction of one file
    fx_pc,          \* "idle", "input", then the extractor that has run
    fx_file,        \* what the mesh-topology provider reports for the file
    fx_result,      \* the extractor's result: its status and its keys
    \* -- get_hq_assembly requests on one project folder
    hq_files,       \* .json file name -> "absent", "partial" or "complete"
    hq_req,         \* request -> where it is, what it has listed and merged
    \* -- build_geometry
    gm_pc,          \* "idle", "input", "done"
    gm_list,        \* geometry_list: the items of the request
    gm_result,      \* model_items and cara_items returned
    \* -- local frame of one beam segment
    lf_pc,          \* "idle", "input", "done"
    lf_vec,         \* p2 - p1 of the segment
    lf_frame,       \* x_axis, y_axis, z_axis computed for it
    \* -- placement of one shell point
    sp_pc,          \* "idle", "input", then the builder that has run
    sp_in,          \* the point's normal, the thickness and the offset
    sp_out          \* where the base-face and top-face copies of the point are

nzVars == <<nz_pc, nz_mode, nz_tuples, nz_flat, nz_n, nz_result>>
exVars == <<ex_pc, ex_groups, ex_payload>>
bmVars == <<bm_pc, bm_conn, bm_section, bm_norm, bm_res>>
scVars == <<sc_handler, sc_pc, pl_points, pl_pending, final_points, final_cells,
            mg_pending, combined_points, combined_cells, point_offset,
            sc_groups, sc_src, sc_trace, sc_last, sc_produced>>
fxVars == <<fx_pc, fx_file, fx_result>>
hqVars == <<hq_files, hq_req>>
gmVars == <<gm_pc, gm_list, gm_result>>
lfVars == <<lf_pc, lf_vec, lf_frame>>
spVars == <<sp_pc, sp_in, sp_out>>
vars == <<nzVars, exVars, bmVars, scVars, fxVars, hqVars, gmVars, lfVars, spVars>>

(***************************************************************************)
(* Generic helpers on sequences.                                           *)
(***************************************************************************)
RECURSIVE Flatten(_)
Flatten(ss) == IF ss = <<>> THEN <<>> ELSE Head(ss) \o Flatten(Tail(ss))

SeqsUpTo(S, n) == UNION { [1..k -> S] : k \in 0..n }

Range(s) == { s[i] : i \in DOMAIN s }

(***************************************************************************)
(* CONNECTIVITY NORMALIZER                                                 *)
(* backend/services/med/med_mesher.py, process_connectivity                *)
(* (the copy in med_analysis_service.py is line for line the same).        *)
(***************************************************************************)

\* chunk = raw_conn_flat[i*stride : (i+1)*stride], i counted from 0
Chunk(raw_conn_flat, stride, i) ==
    SubSeq(raw_conn_flat, i * stride + 1, (i + 1) * stride)

\* variant: the prefix is never stripped
CleanChunkKeepPrefix(chunk) == chunk

\* a chunk of more than one value loses its first value, any other chunk is kept
CleanChunk(chunk) == IF Len(chunk) > 1 THEN Tail(chunk) ELSE chunk

\* the function either returns a list or raises; the code has no raise statement
process_connectivity(raw_conn_flat, num_cells) ==
    IF num_cells <= 0 \/ raw_conn_flat = <<>>
    THEN [raised |-> "none", value |-> <<>>]
    ELSE LET total_len == Len(raw_conn_flat)
             nodes_per_elem_total == total_len \div num_cells
         IN  [raised |-> "none",
              value  |-> [i \in 1..num_cells |->
                            CleanChunk(Chunk(raw_conn_flat, nodes_per_elem_total, i - 1))]]

(***************************************************************************)
(* The provider's encoding of n tuples: one prefix value, then the node    *)
(* ids, element after element.                                             *)
(***************************************************************************)
RECURSIVE EncodeWithPrefix(_, _)
EncodeWithPrefix(tuples, prefix) ==
    IF tuples = <<>> THEN <<>>
    ELSE (<<prefix>> \o Head(tuples)) \o EncodeWithPrefix(Tail(tuples), prefix)

NoResult == [raised |-> "none", value |-> <<>>]

\* the example of the specification: [(1,2,3),(4,5,6),(7,8,9)] with prefix 3
ExampleTuples == << <<1, 2, 3>>, <<4, 5, 6>>, <<7, 8, 9>> >>

Ids == 0..MaxId

\* n >= 1 tuples of one length k >= 1 that fit in MaxFlat values once encoded
UniformTuplesOf(n) ==
    UNION { [1..n -> [1..k -> Ids]] : k \in { kk \in 1..MaxFlat : n * (kk + 1) <= MaxFlat } }

UniformTuples == UNION { UniformTuplesOf(n) : n \in 1..MaxCells }

NzIdle ==
    /\ nz_pc = "idle"
    /\ nz_mode = "raw"
    /\ nz_tuples = <<>>
    /\ nz_flat = <<>>
    /\ nz_n = 0
    /\ nz_result = NoResult

NzInit ==
    /\ nz_pc = "input"
    /\ nz_result = NoResult
    /\ \/ /\ nz_mode = "encoded"
          /\ nz_tuples \in UniformTuples \cup {ExampleTuples}
          /\ \E prefix \in Ids \cup {3} :
                nz_flat = EncodeWithPrefix(nz_tuples, prefix)
          /\ nz_n = Len(nz_tuples)
       \/ /\ nz_mode = "stride1"
          /\ nz_tuples = <<>>
          /\ nz_flat \in SeqsUpTo(Ids, MaxFlat) \ {<<>>}
          /\ nz_n = Len(nz_flat)
       \/ /\ nz_mode = "raw"
          /\ nz_tuples = <<>>
          /\ nz_flat \in SeqsUpTo(Ids, MaxFlat)
          /\ nz_n \in 0..MaxCells

ProcessConnectivity ==
    /\ nz_pc = "input"
    /\ nz_result' = process_connectivity(nz_flat, nz_n)
    /\ nz_pc' = "done"
    /\ UNCHANGED <<nz_mode, nz_tuples, nz_flat, nz_n>>
    /\ UNCHANGED <<exVars, bmVars, scVars, fxVars, hqVars, gmVars, lfVars, spVars>>

(***************************************************************************)
(* GROUP EXTRACTORS: the connectivity each one delivers.                   *)
(*                                                                         *)
(* The provider (MEDCoupling) keeps the nodal connectivity of a mesh as    *)
(* one flat array, each cell being its type code followed by its node      *)
(* ids, and a connectivity index holding the position where each cell      *)
(* starts.                                                                 *)
(***************************************************************************)
CellTypes == {"SEG2", "TRI3"}

NodesOf(cell_type) == IF cell_type = "SEG2" THEN 2 ELSE 3

\* mc.NORM_SEG2 and mc.NORM_TRI3
TypeCode(cell_type) == IF cell_type = "SEG2" THEN 1 ELSE 3

\* getNodalConnectivity().toNumPyArray().flatten().tolist()
getNodalConnectivity(g) == EncodeWithPrefix(g.cells, TypeCode(g.type))

\* getNodalConnectivityIndex(): 0, k+1, 2(k+1), ...
getNodalConnectivityIndex(g) ==
    [i \in 1..(Len(g.cells) + 1) |-> (i - 1) * (NodesOf(g.type) + 1)]

\* mesh_obj.getNumberOfCells()
getNumberOfCells(g) == Len(g.cells)

\* a cell of the provider: NodesOf(type) consecutive node ids from a first one
\* (wrapping around the file's ExMaxId + 1 points)
ProviderCell(cell_type, first) ==
    [j \in 1..NodesOf(cell_type) |-> (first + j - 1) % (ExMaxId + 1)]

ProviderGroups ==
    UNION { { [type |-> t, cells |-> [c \in 1..n |-> ProviderCell(t, firsts[c])]] :
                firsts \in [1..n -> 0..ExMaxId] } :
              t \in CellTypes, n \in 1..MaxGroupCells }

ExIdle ==
    /\ ex_pc = "idle"
    /\ ex_groups = <<>>
    /\ ex_payload = <<>>

ExInit ==
    /\ ex_pc = "input"
    /\ ex_groups \in UNION { [1..n -> ProviderGroups] : n \in 1..MaxFileGroups }
    /\ ex_payload = <<>>

\* med_mesher.py: the payload's "connectivity" of one export target
MesherConnectivity(g) ==
    LET num == getNumberOfCells(g)
        raw_conn == getNodalConnectivity(g)
        structured_connectivity == process_connectivity(raw_conn, num).value
    IN  [shape |-> "tuples", conn |-> structured_connectivity, shift |-> 0]

ExtractAndSaveMesh ==
    /\ ex_pc = "input"
    /\ ex_payload' = [i \in DOMAIN ex_groups |-> MesherConnectivity(ex_groups[i])]
    /\ ex_pc' = "med_mesher"
    /\ UNCHANGED ex_groups
    /\ UNCHANGED <<nzVars, bmVars, scVars, fxVars, hqVars, gmVars, lfVars, spVars>>

\* med_extractor.py: results[g_name]["connectivity"]
ExtractorConnectivity(g) ==
    [shape |-> "flat", conn |-> getNodalConnectivity(g), shift |-> 0]

ExtractMedData ==
    /\ ex_pc = "input"
    /\ ex_payload' = [i \in DOMAIN ex_groups |-> ExtractorConnectivity(ex_groups[i])]
    /\ ex_pc' = "med_extractor"
    /\ UNCHANGED ex_groups
    /\ UNCHANGED <<nzVars, bmVars, scVars, fxVars, hqVars, gmVars, lfVars, spVars>>

(***************************************************************************)
(* med_extruder.py without geometries: every group is one sub-mesh of the  *)
(* single MergeUMeshes call.  The merged mesh holds the sub-meshes' cells  *)
(* in order, the node ids of each shifted by the number of points of the   *)
(* sub-meshes before it; every sub-mesh read from the file lies on the     *)
(* file's whole coordinate array, ExMaxId + 1 points here.                   *)
(***************************************************************************)
PointsPerSubmesh == ExMaxId + 1

ShiftCells(cells, by) == [c \in DOMAIN cells |-> [j \in DOMAIN cells[c] |-> cells[c][j] + by]]

RECURSIVE MergeUMeshes(_, _)
MergeUMeshes(submeshes, shift) ==
    IF submeshes = <<>> THEN <<>>
    ELSE LET g == Head(submeshes)
         IN  EncodeWithPrefix(ShiftCells(g.cells, shift), TypeCode(g.type))
               \o MergeUMeshes(Tail(submeshes), shift + PointsPerSubmesh)

RECURSIVE MergedIndex(_, _)
MergedIndex(submeshes, at) ==
    IF submeshes = <<>> THEN <<at>>
    ELSE LET g == Head(submeshes)
             n == Len(g.cells)
             k == NodesOf(g.type) + 1
         IN  [i \in 1..n |-> at + (i - 1) * k] \o MergedIndex(Tail(submeshes), at + n * k)

RECURSIVE CellsBefore(_, _)
CellsBefore(submeshes, i) ==
    IF i <= 1 THEN 0 ELSE Len(submeshes[i - 1].cells) + CellsBefore(submeshes, i - 1)

\* connectivity.append(merged_con[start:end].tolist()) for the cells of sub-mesh i
ExtruderConnectivity(submeshes, i) ==
    LET merged_con == MergeUMeshes(submeshes, 0)
        merged_idx == MergedIndex(submeshes, 0)
        first == CellsBefore(submeshes, i)
        n_c == Len(submeshes[i].cells)
    IN  [shape |-> "tuples",
         conn  |-> [c \in 1..n_c |->
                      LET start == merged_idx[first + c]
                          end == merged_idx[first + c + 1]
                      IN  SubSeq(merged_con, start + 1, end)],
         shift |-> (i - 1) * PointsPerSubmesh]

PerformExtrusion ==
    /\ ex_pc = "input"
    /\ ex_payload' = [i \in DOMAIN ex_groups |-> ExtruderConnectivity(ex_groups, i)]
    /\ ex_pc' = "med_extruder"
    /\ UNCHANGED ex_groups
    /\ UNCHANGED <<nzVars, bmVars, scVars, fxVars, hqVars, gmVars, lfVars, spVars>>

(***************************************************************************)
(* BEAM SWEEP BUILDER                                                      *)
(* backend/services/med/vtk_extruder.py                                    *)
(*                                                                         *)
(* The line groups of the model are collinear: every point lies on one     *)
(* axis and is held as its coordinate on that axis, so p2 - p1 is a signed *)
(* number, its norm the absolute value and its unit vector the sign.       *)
(***************************************************************************)
Abs(x) == IF x < 0 THEN -x ELSE x

Sign(x) == IF x > 0 THEN 1 ELSE IF x < 0 THEN -1 ELSE 0

\* the tolerance 1e-6 of the code, as its inverse: a < 1e-6 iff a * EpsInv < 1
EpsInv == 1000000

\* points[i] of the code, indices counted from 0
Pt(points, i) == points[i + 1]

\* vec = p2 - p1 of a segment
SegVec(seg, points) == Pt(points, seg[2]) - Pt(points, seg[1])

\* the segments that enter the mean direction: np.linalg.norm(vec) > 1e-6
EntersMean(seg, points) == Len(seg) >= 2 /\ Abs(SegVec(seg, points)) * EpsInv > 1

\* sum of the unit vectors of the segments that enter the mean
RECURSIVE SumUnit(_, _)
SumUnit(connectivity, points) ==
    IF connectivity = <<>> THEN 0
    ELSE (IF EntersMean(Head(connectivity), points)
          THEN Sign(SegVec(Head(connectivity), points)) ELSE 0)
         + SumUnit(Tail(connectivity), points)

RECURSIVE ValidCount(_, _)
ValidCount(connectivity, points) ==
    IF connectivity = <<>> THEN 0
    ELSE (IF EntersMean(Head(connectivity), points) THEN 1 ELSE 0)
         + ValidCount(Tail(connectivity), points)

\* np.dot(vec, avg_dir) < -1e-6 with avg_dir = sum_unit / valid_count
AgainstMean(seg, points, sum_unit, valid_count) ==
    SegVec(seg, points) * sum_unit * EpsInv < -valid_count

normalize_line_connectivity(connectivity, points) ==
    IF connectivity = <<>> THEN connectivity
    ELSE LET sum_unit == SumUnit(connectivity, points)
             valid_count == ValidCount(connectivity, points)
         IN  IF valid_count = 0 THEN connectivity
             ELSE [i \in DOMAIN connectivity |->
                     LET seg == connectivity[i]
                     IN  IF Len(seg) < 2 THEN seg
                         ELSE IF AgainstMean(seg, points, sum_unit, valid_count)
                              THEN <<seg[2], seg[1]>>
                              ELSE seg]

(***************************************************************************)
(* The cross-section profile: vertices and triangles (indices from 0).     *)
(***************************************************************************)
\* a section_mesh: the number of its vertices and its triangles; odd_flat says
\* that 'vertices' is a flat list [y1, z1, y2, ...] of odd length
EmptyProfile == [vertices |-> 0, triangles |-> <<>>, odd_flat |-> FALSE]
TriangleProfile == [vertices |-> 3, triangles |-> << <<0, 1, 2>> >>, odd_flat |-> FALSE]
SquareProfile ==
    [vertices |-> 4, triangles |-> << <<0, 1, 2>>, <<0, 2, 3>> >>, odd_flat |-> FALSE]
OddFlatProfile == [vertices |-> 1, triangles |-> <<>>, odd_flat |-> TRUE]
VerticesOnlyProfile == [vertices |-> 3, triangles |-> <<>>, odd_flat |-> FALSE]
SectionChoices == {EmptyProfile, VerticesOnlyProfile, TriangleProfile, SquareProfile}

\* the edges of a polygon, as pairs of consecutive vertices
PolyEdges(poly) == [j \in DOMAIN poly |-> <<poly[j], poly[(j % Len(poly)) + 1]>>]

\* an edge is on the boundary when one polygon only holds its two ends
IsBoundaryEdge(e, polys) ==
    Cardinality({ k \in DOMAIN polys : {e[1], e[2]} \subseteq Range(polys[k]) }) = 1

(***************************************************************************)
(* The geometry kernel: the profile moved to p1 and extruded to p2         *)
(* (vtkTransformPolyDataFilter, then vtkLinearExtrusionFilter with its     *)
(* default capping).  The output holds the profile's points at p1, then    *)
(* their copies at p2; its cells are the profile's polygons, their copies  *)
(* on the far side and one strip along every boundary edge.  A profile     *)
(* without points or without polygons gives the kernel nothing to extrude. *)
(***************************************************************************)
\* variant: the far end of the fragment is not created
ExtrudeProfileOneEnd(section_mesh, p1, p2) ==
    [points |-> [i \in 1..section_mesh.vertices |-> p1],
     cells  |-> section_mesh.triangles]

ExtrudeProfile(section_mesh, p1, p2) ==
    LET nv == section_mesh.vertices
        polys == section_mesh.triangles
        edges == Flatten([k \in DOMAIN polys |-> PolyEdges(polys[k])])
        sides == SelectSeq(edges, LAMBDA e : IsBoundaryEdge(e, polys))
    IN  IF nv = 0 \/ polys = <<>> THEN [points |-> <<>>, cells |-> <<>>]
        ELSE [points |-> [i \in 1..(2 * nv) |-> IF i <= nv THEN p1 ELSE p2],
              cells  |-> polys
                         \o [k \in DOMAIN polys |->
                               [j \in DOMAIN polys[k] |-> polys[k][j] + nv]]
                         \o [k \in DOMAIN sides |->
                               <<sides[k][1], sides[k][2],
                                 sides[k][1] + nv, sides[k][2] + nv>>]]

\* vtkAppendPolyData: points one after the other, cell indices shifted
AppendPolyData(acc, frag) ==
    [points |-> acc.points \o frag.points,
     cells  |-> acc.cells \o ShiftCells(frag.cells, Len(acc.points))]

\* variant: zero-length segments are swept like any other
SweepSkipsShortOnly(seg, points) == Len(seg) < 2

\* the segments the sweep skips: fewer than two ends, or length < 1e-6
SweepSkips(seg, points) == Len(seg) < 2 \/ Abs(SegVec(seg, points)) * EpsInv < 1

\* the loop over the normalized segments, with what it has appended so far;
\* segments records the (p1, p2) of every fragment appended
RECURSIVE SweepSegments(_, _, _, _)
SweepSegments(segs, points, section_mesh, acc) ==
    IF segs = <<>> THEN acc
    ELSE LET seg == Head(segs)
         IN  IF SweepSkips(seg, points)
             THEN SweepSegments(Tail(segs), points, section_mesh, acc)
             ELSE LET p1 == Pt(points, seg[1])
                      p2 == Pt(points, seg[2])
                      frag == ExtrudeProfile(section_mesh, p1, p2)
                      merged == AppendPolyData(acc, frag)
                  IN  SweepSegments(Tail(segs), points, section_mesh,
                                    [points   |-> merged.points,
                                     cells    |-> merged.cells,
                                     segments |-> Append(acc.segments, <<p1, p2>>)])

\* vtk_dataset_to_dict: a dataset without points is reported as "empty"
vtk_dataset_to_dict(data) ==
    IF Len(data.points) = 0
    THEN [status |-> "empty", points |-> <<>>, connectivity |-> <<>>]
    ELSE [status |-> "none", points |-> data.points, connectivity |-> data.cells]

\* the only statement of the function that raises on a section_mesh with both
\* keys and index-valid segments is verts[i+1] on a flat list of odd length
extrude_beam_memory(connectivity, points, section_mesh) ==
    LET normalized_conn == normalize_line_connectivity(connectivity, points)
        swept == SweepSegments(normalized_conn, points, section_mesh,
                               [points |-> <<>>, cells |-> <<>>, segments |-> <<>>])
    IN  IF section_mesh.odd_flat
        THEN [data |-> vtk_dataset_to_dict([points |-> <<>>, cells |-> <<>>]),
              segments |-> <<>>, raised |-> "IndexError"]
        ELSE [data |-> vtk_dataset_to_dict(swept), segments |-> swept.segments,
              raised |-> "none"]

\* the points of the line groups: three points at 0, 1 and 2 on the axis
BeamPts == <<0, 1, 2>>

\* a segment holds two point indices (or one, a malformed element)
SegmentChoices ==
    [1..2 -> 0..(Len(BeamPts) - 1)] \cup [1..1 -> 0..(Len(BeamPts) - 1)]

NoSweep == [data |-> [status |-> "empty", points |-> <<>>, connectivity |-> <<>>],
            segments |-> <<>>, raised |-> "none"]

BmIdle ==
    /\ bm_pc = "idle"
    /\ bm_conn = <<>>
    /\ bm_section = EmptyProfile
    /\ bm_norm = <<>>
    /\ bm_res = NoSweep

BmInit ==
    /\ bm_pc = "input"
    /\ bm_conn \in SeqsUpTo(SegmentChoices, MaxSegs)
    /\ bm_section \in SectionChoices
    /\ bm_norm = <<>>
    /\ bm_res = NoSweep

NormalizeLineConnectivity ==
    /\ bm_pc = "input"
    /\ bm_norm' = normalize_line_connectivity(bm_conn, BeamPts)
    /\ bm_pc' = "normalized"
    /\ UNCHANGED <<bm_conn, bm_section, bm_res>>
    /\ UNCHANGED <<nzVars, exVars, scVars, fxVars, hqVars, gmVars, lfVars, spVars>>

\* extrude_beam_memory normalizes the connectivity itself, then sweeps
ExtrudeBeamMemory ==
    /\ bm_pc = "input"
    /\ bm_norm' = normalize_line_connectivity(bm_conn, BeamPts)
    /\ bm_res' = extrude_beam_memory(bm_conn, BeamPts, bm_section)
    /\ bm_pc' = "swept"
    /\ UNCHANGED <<bm_conn, bm_section>>
    /\ UNCHANGED <<nzVars, exVars, scVars, fxVars, hqVars, gmVars, lfVars, spVars>>

(***************************************************************************)
(* SCENE ASSEMBLER, single file                                            *)
(* backend/services/med/vtk_extruder.py, med_to_vtk_pipeline               *)
(*                                                                         *)
(* Every group read from one file lies on the file's whole coordinate      *)
(* array, so the connectivity of every group indexes the points of the     *)
(* full mesh.  A Python list of coordinates holds three numbers a point;   *)
(* the model keeps one entry a point (its coordinate on the axis) and      *)
(* states the list's length as three times the number of entries.          *)
(***************************************************************************)
EmptyMap == [n \in {} |-> 0]

\* d[k] = v on a dict
Put(d, k, v) == [n \in DOMAIN d \cup {k} |-> IF n = k THEN v ELSE d[n]]

\* len() of a flat coordinate list
FlatLen(points) == 3 * Len(points)

\* the groups a file may hold; the pipeline visits them in the order of the
\* dict it is given
GroupNames == {"B", "B_EXTRUSION", "C"}

\* the key of the whole mesh among the groups of a file
FullMeshKey == "_FULL_MESH_"

\* VTK_LINE, VTK_TRIANGLE, VTK_TETRA
VtkTypes == {3, 5, 10}

VtkNodes(vtk_type) == IF vtk_type = 3 THEN 2 ELSE IF vtk_type = 5 THEN 3 ELSE 4

\* VTK_NODES_MAP = {3: 2, 5: 3, 9: 4, 10: 4, 12: 8}, on the types it holds
VTK_NODES_MAP(vtk_type) ==
    CASE vtk_type = 3 -> 2
      [] vtk_type = 5 -> 3
      [] vtk_type = 9 -> 4
      [] vtk_type = 10 -> 4
      [] vtk_type = 12 -> 8

\* {3:'line', 5:'triangle', 9:'quad', 10:'tetra', 12:'hexa', 1:'vertex'}
CellTypeStr(vtk_type) ==
    CASE vtk_type = 3 -> "line"
      [] vtk_type = 5 -> "triangle"
      [] vtk_type = 9 -> "quad"
      [] vtk_type = 10 -> "tetra"
      [] vtk_type = 12 -> "hexa"
      [] vtk_type = 1 -> "vertex"
      [] OTHER -> "unknown"

\* the points of a file: n points at 0, 1, ... on the axis
FilePoints(n) == [i \in 1..n |-> i - 1]

\* the connectivity of a group: one cell of the group's type on consecutive
\* points of the file, from a first one
GroupConnectivity(vtk_type, first, npts) ==
    << [j \in 1..VtkNodes(vtk_type) |-> (first + j - 1) % npts] >>

\* the first points tried: every point for a line, point 0 for other cells
Firsts(vtk_type, npts) == IF vtk_type = 3 THEN 0..(npts - 1) ELSE {0}

\* the entry of `geometries` for a group, if any
NoConfig == [present |-> FALSE, category |-> "none", thickness |-> 0,
             has_section |-> FALSE, section_mesh |-> EmptyProfile]

GeomConfigs ==
    {NoConfig} \cup
    [present : {TRUE}, category : {"none", "1D", "2D"}, thickness : {-1, 0, 1},
     has_section : {FALSE}, section_mesh : {EmptyProfile}] \cup
    [present : {TRUE}, category : {"none", "1D", "2D"}, thickness : {-1, 0, 1},
     has_section : {TRUE}, section_mesh : {EmptyProfile, TriangleProfile}] \cup
    [present : {TRUE}, category : {"none", "1D"}, thickness : {0},
     has_section : {TRUE}, section_mesh : {OddFlatProfile}]

\* category = geom_config.get('_category'), else detected from the cell type
Category(geom_config, cell_type_str) ==
    IF geom_config.present /\ geom_config.category # "none"
    THEN geom_config.category
    ELSE IF cell_type_str = "line" THEN "1D"
         ELSE IF cell_type_str \in {"triangle", "quad"} THEN "2D"
         ELSE "3D"

\* float(params.get('thickness', 0)), params being {} without a config
Thickness(geom_config) == IF geom_config.present THEN geom_config.thickness ELSE 0

\* the branch of the loop body a group takes
Branch(geom_config, vtk_type) ==
    LET cell_type_str == CellTypeStr(vtk_type)
        category == Category(geom_config, cell_type_str)
    IN  IF /\ category = "1D"
           /\ cell_type_str = "line"
           /\ geom_config.present
           /\ geom_config.has_section
        THEN "beam"
        ELSE IF category = "2D" /\ Thickness(geom_config) > 0
             THEN "shell"
             ELSE "pass"

BaseCell(type, vtk_type, connectivity) ==
    [type |-> type, vtk_type |-> vtk_type, connectivity |-> connectivity,
     is_extruded |-> FALSE, is_base |-> TRUE]

ExtrudedCell(connectivity) ==
    [type |-> "quad", vtk_type |-> 9, connectivity |-> connectivity,
     is_extruded |-> TRUE, is_base |-> FALSE]

\* variant: the offset taken after the component's points are appended
BaseIdxAfterAppend(points_before, res_points) ==
    FlatLen(points_before \o res_points) \div 3

\* base_idx = len(final_points) // 3, taken before final_points.extend(...)
BaseIdx(points_before, res_points) == FlatLen(points_before) \div 3

\* f"{g_name}_EXTRUSION"
ExtrusionName(g_name) == g_name \o "_EXTRUSION"

(***************************************************************************)
(* The geometry kernel on a shell: the surface is moved along its normals  *)
(* and extruded by the thickness; the output holds the input points twice  *)
(* (base face, top face), the faces, their copies and the side strips.     *)
(* On input it cannot turn into a surface the kernel returns nothing.      *)
(***************************************************************************)
ExtrudeSurface(points, connectivity) ==
    LET np == Len(points)
        edges == Flatten([k \in DOMAIN connectivity |-> PolyEdges(connectivity[k])])
        sides == SelectSeq(edges, LAMBDA e : IsBoundaryEdge(e, connectivity))
    IN  [points |-> points \o points,
         cells  |-> connectivity
                    \o ShiftCells(connectivity, np)
                    \o [k \in DOMAIN sides |->
                          <<sides[k][1], sides[k][2], sides[k][1] + np, sides[k][2] + np>>]]

extrude_shell_memory(points, connectivity) ==
    { vtk_dataset_to_dict(ExtrudeSurface(points, connectivity)),
      vtk_dataset_to_dict([points |-> <<>>, cells |-> <<>>]) }

NoLast == [outcome |-> "none", len_before |-> 0, offset_before |-> 0]

ScIdle ==
    /\ sc_handler = "idle"
    /\ sc_pc = "idle"
    /\ pl_points = <<>>
    /\ pl_pending = {}
    /\ final_points = <<>>
    /\ final_cells = EmptyMap
    /\ mg_pending = {}
    /\ combined_points = <<>>
    /\ combined_cells = EmptyMap
    /\ point_offset = 0
    /\ sc_groups = EmptyMap
    /\ sc_src = EmptyMap
    /\ sc_trace = EmptyMap
    /\ sc_last = NoLast
    /\ sc_produced = 0

\* final_points = list(points); final_cells = {}
PipelineInit ==
    /\ sc_handler = "med_to_vtk_pipeline"
    /\ sc_pc = "run"
    /\ \E n \in 1..MaxFilePts : pl_points = FilePoints(n)
    /\ pl_pending \in SUBSET (GroupNames \cup {FullMeshKey})
    /\ final_points = pl_points
    /\ final_cells = EmptyMap
    /\ mg_pending = {}
    /\ combined_points = <<>>
    /\ combined_cells = EmptyMap
    /\ point_offset = 0
    /\ sc_groups = EmptyMap
    /\ sc_src = EmptyMap
    /\ sc_trace = EmptyMap
    /\ sc_last = NoLast
    /\ sc_produced = 0

mgUnchanged == UNCHANGED <<mg_pending, combined_points, combined_cells, point_offset>>

\* what a group is, for the history: a surface group without a thickness > 0
IsFlatSurface(geom_config, vtk_type) ==
    CellTypeStr(vtk_type) \in {"triangle", "quad"} /\ Thickness(geom_config) <= 0

\* what a visited group was, for the history: the branch it took, the type of
\* its cells, whether it
\* is a surface without a thickness > 0, and whether it is a line group of
\* category 1D with a configured profile of vertices and triangles and a
\* segment between two distinct points
GroupInfo(branch, geom_config, vtk_type, connectivity) ==
    [branch       |-> branch,
     cell_type    |-> CellTypeStr(vtk_type),
     flat_surface |-> IsFlatSurface(geom_config, vtk_type),
     sweepable    |-> /\ vtk_type = 3
                      /\ Category(geom_config, CellTypeStr(vtk_type)) = "1D"
                      /\ geom_config.present /\ geom_config.has_section
                      /\ geom_config.section_mesh.vertices > 0
                      /\ geom_config.section_mesh.triangles # <<>>
                      /\ ~geom_config.section_mesh.odd_flat
                      /\ \E c \in DOMAIN connectivity :
                            connectivity[c][1] # connectivity[c][2]]

\* the part of the loop body shared by the beam and the shell branch: the
\* original mesh is stored under the group's name, then the solid, unless
\* empty, is appended and stored under the extrusion's name
StoreWithExtrusion(g_name, base, res, info) ==
    LET with_base == Put(final_cells, g_name, base)
        base_idx == BaseIdx(final_points, res.points)
        translated_conn == ShiftCells(res.connectivity, base_idx)
        ext_name == ExtrusionName(g_name)
    IN  /\ IF res.status # "empty"
           THEN /\ final_points' = final_points \o res.points
                /\ final_cells' = Put(with_base, ext_name, ExtrudedCell(translated_conn))
                /\ sc_src' = Put(Put(sc_src, g_name, g_name), ext_name, g_name)
                /\ sc_trace' = Put(Put(sc_trace, g_name,
                                       [local |-> base.connectivity, start |-> 0]),
                                   ext_name,
                                   [local |-> res.connectivity, start |-> Len(final_points)])
           ELSE /\ final_points' = final_points
                /\ final_cells' = with_base
                /\ sc_src' = Put(sc_src, g_name, g_name)
                /\ sc_trace' = Put(sc_trace, g_name,
                                   [local |-> base.connectivity, start |-> 0])
        /\ sc_groups' = Put(sc_groups, g_name, info)
        /\ sc_last' = [outcome |-> IF res.status # "empty" THEN "extruded" ELSE "empty",
                       len_before |-> Len(final_points), offset_before |-> 0]
        /\ sc_produced' = sc_produced + (IF res.status # "empty" THEN 2 ELSE 1)
        /\ pl_pending' = pl_pending \ {g_name}
        /\ UNCHANGED <<sc_handler, sc_pc, pl_points>>
        /\ mgUnchanged

\* --- PROCESS BEAMS ---
ProcessBeam ==
    /\ sc_handler = "med_to_vtk_pipeline" /\ sc_pc = "run"
    /\ \E g_name \in pl_pending \ {FullMeshKey}, vtk_type \in VtkTypes,
          geom_config \in GeomConfigs :
       \E first \in Firsts(vtk_type, Len(pl_points)) :
          LET connectivity == GroupConnectivity(vtk_type, first, Len(pl_points))
              returned == extrude_beam_memory(connectivity, pl_points,
                                              geom_config.section_mesh)
              res == returned.data
          IN  /\ Branch(geom_config, vtk_type) = "beam"
              /\ returned.raised = "none"
              /\ StoreWithExtrusion(g_name, BaseCell("line", 3, connectivity), res,
                                    GroupInfo("beam", geom_config, vtk_type, connectivity))
    /\ UNCHANGED <<nzVars, exVars, bmVars, fxVars, hqVars, gmVars, lfVars, spVars>>

\* --- PROCESS SHELLS ---
ProcessShell ==
    /\ sc_handler = "med_to_vtk_pipeline" /\ sc_pc = "run"
    /\ \E g_name \in pl_pending \ {FullMeshKey}, vtk_type \in VtkTypes,
          geom_config \in GeomConfigs :
       \E first \in Firsts(vtk_type, Len(pl_points)) :
          LET connectivity == GroupConnectivity(vtk_type, first, Len(pl_points))
          IN  /\ Branch(geom_config, vtk_type) = "shell"
              /\ \E res \in extrude_shell_memory(pl_points, connectivity) :
                    StoreWithExtrusion(g_name,
                                       BaseCell(CellTypeStr(vtk_type), vtk_type, connectivity),
                                       res,
                                       GroupInfo("shell", geom_config, vtk_type,
                                                 connectivity))
    /\ UNCHANGED <<nzVars, exVars, bmVars, fxVars, hqVars, gmVars, lfVars, spVars>>

\* --- PASS-THROUGH (Solid/Other) ---
PassThrough ==
    /\ sc_handler = "med_to_vtk_pipeline" /\ sc_pc = "run"
    /\ \E g_name \in pl_pending \ {FullMeshKey}, vtk_type \in VtkTypes,
          geom_config \in GeomConfigs :
       \E first \in Firsts(vtk_type, Len(pl_points)) :
          LET connectivity == GroupConnectivity(vtk_type, first, Len(pl_points))
          IN  /\ Branch(geom_config, vtk_type) = "pass"
              /\ final_cells' = Put(final_cells, g_name,
                                    BaseCell(CellTypeStr(vtk_type), vtk_type, connectivity))
              /\ sc_src' = Put(sc_src, g_name, g_name)
              /\ sc_trace' = Put(sc_trace, g_name, [local |-> connectivity, start |-> 0])
              /\ sc_groups' = Put(sc_groups, g_name,
                                  GroupInfo("pass", geom_config, vtk_type, connectivity))
              /\ sc_last' = [outcome |-> "base", len_before |-> Len(final_points),
                             offset_before |-> 0]
              /\ sc_produced' = sc_produced + 1
              /\ pl_pending' = pl_pending \ {g_name}
    /\ UNCHANGED <<sc_handler, pl_points, final_points, sc_pc>>
    /\ mgUnchanged
    /\ UNCHANGED <<nzVars, exVars, bmVars, fxVars, hqVars, gmVars, lfVars, spVars>>

\* except Exception as e: return {"status": "error", ...}: the builder of a
\* group raised, the loop is left and the scene built so far is dropped
PipelineAbort ==
    /\ sc_handler = "med_to_vtk_pipeline" /\ sc_pc = "run"
    /\ \E g_name \in pl_pending \ {FullMeshKey}, vtk_type \in VtkTypes,
          geom_config \in GeomConfigs :
       \E first \in Firsts(vtk_type, Len(pl_points)) :
          LET connectivity == GroupConnectivity(vtk_type, first, Len(pl_points))
              returned == extrude_beam_memory(connectivity, pl_points,
                                              geom_config.section_mesh)
          IN  /\ Branch(geom_config, vtk_type) = "beam"
              /\ returned.raised # "none"
              /\ sc_last' = [outcome |-> "raised", len_before |-> Len(final_points),
                             offset_before |-> 0]
    /\ sc_pc' = "error"
    /\ UNCHANGED <<sc_handler, pl_points, pl_pending, final_points, final_cells,
                   sc_groups, sc_src, sc_trace, sc_produced>>
    /\ mgUnchanged
    /\ UNCHANGED <<nzVars, exVars, bmVars, fxVars, hqVars, gmVars, lfVars, spVars>>

\* if g_name == "_FULL_MESH_": continue
PipelineSkipFullMesh ==
    /\ sc_handler = "med_to_vtk_pipeline" /\ sc_pc = "run"
    /\ FullMeshKey \in pl_pending
    /\ pl_pending' = pl_pending \ {FullMeshKey}
    /\ sc_last' = [outcome |-> "skipped", len_before |-> Len(final_points),
                   offset_before |-> 0]
    /\ UNCHANGED <<sc_handler, sc_pc, pl_points, final_points, final_cells,
                   sc_groups, sc_src, sc_trace, sc_produced>>
    /\ mgUnchanged
    /\ UNCHANGED <<nzVars, exVars, bmVars, fxVars, hqVars, gmVars, lfVars, spVars>>

\* mesh_groups is empty: if not full_mesh: return {"status": "error", ...}
PipelineNoGroups ==
    /\ sc_handler = "med_to_vtk_pipeline" /\ sc_pc = "run"
    /\ pl_pending = {} /\ sc_last = NoLast
    /\ sc_pc' = "error"
    /\ UNCHANGED <<sc_handler, pl_points, pl_pending, final_points, final_cells,
                   sc_groups, sc_src, sc_trace, sc_last, sc_produced>>
    /\ mgUnchanged
    /\ UNCHANGED <<nzVars, exVars, bmVars, fxVars, hqVars, gmVars, lfVars, spVars>>

\* the loop is over: return {"status": "success", "points": ..., "cells": ...}
PipelineReturn ==
    /\ sc_handler = "med_to_vtk_pipeline" /\ sc_pc = "run"
    /\ pl_pending = {} /\ sc_last # NoLast
    /\ sc_pc' = "success"
    /\ UNCHANGED <<sc_handler, pl_points, pl_pending, final_points, final_cells,
                   sc_groups, sc_src, sc_trace, sc_last, sc_produced>>
    /\ mgUnchanged
    /\ UNCHANGED <<nzVars, exVars, bmVars, fxVars, hqVars, gmVars, lfVars, spVars>>

(***************************************************************************)
(* SCENE ASSEMBLER, several files                                          *)
(* backend/api/routes.py, get_mesh_vtk and get_hq_assembly                 *)
(***************************************************************************)
plUnchanged == UNCHANGED <<pl_points, pl_pending, final_points, final_cells, sc_groups>>

\* the mesh files of the folder (names without ".med" or ".json") and the
\* names of the components a file's result may hold
FileStems == {"a", "a_b"}
FileGroupNames == {"c", "b_c"}

\* f"{mesh_file.replace('.med', '')}_{group_name}"
PrefixedName(stem, group_name) == stem \o "_" \o group_name

\* a component of a file's result: one cell on the result's own points
FileCellChoices(npts) ==
    IF npts = 0 THEN {}
    ELSE { [type |-> CellTypeStr(t), connectivity |-> GroupConnectivity(t, first, npts)] :
             t \in {3, 5}, first \in 0..(npts - 1) }

ErrorResult == [status |-> "error", points |-> <<>>, cells |-> EmptyMap]

\* what med_to_vtk_json returns for a file: an error, or points and cells
\* whose indices are valid against those points
FileResults ==
    {ErrorResult} \cup
    UNION { [status : {"success"}, points : {FilePoints(n)},
             cells : UNION { [D -> FileCellChoices(n)] : D \in SUBSET FileGroupNames }] :
              n \in 0..MaxFilePts }

\* the points of get_mesh_vtk are a list of (x, y, z) triples: one entry a point
TripleLen(points) == Len(points)

\* variant: the offset advanced by the number of coordinates
NextOffsetByCoordinates(offset, result_points) == offset + FlatLen(result_points)

\* point_offset += len(result["points"])
NextOffset(offset, result_points) == offset + TripleLen(result_points)

MergeInit ==
    /\ sc_handler \in {"get_mesh_vtk", "get_hq_assembly"}
    /\ sc_pc = "run"
    /\ mg_pending \in SUBSET FileStems
    /\ combined_points = <<>>
    /\ combined_cells = EmptyMap
    /\ point_offset = 0
    /\ pl_points = <<>>
    /\ pl_pending = {}
    /\ final_points = <<>>
    /\ final_cells = EmptyMap
    /\ sc_groups = EmptyMap
    /\ sc_src = EmptyMap
    /\ sc_trace = EmptyMap
    /\ sc_last = NoLast
    /\ sc_produced = 0

\* if not files: return 404
GetMeshVtkNoFiles ==
    /\ sc_handler = "get_mesh_vtk" /\ sc_pc = "run"
    /\ mg_pending = {} /\ sc_last = NoLast
    /\ sc_pc' = "error"
    /\ UNCHANGED <<sc_handler, mg_pending, combined_points, combined_cells, point_offset,
                   sc_src, sc_trace, sc_last, sc_produced>>
    /\ plUnchanged
    /\ UNCHANGED <<nzVars, exVars, bmVars, fxVars, hqVars, gmVars, lfVars, spVars>>

\* if result["status"] != "success": continue
GetMeshVtkSkip ==
    /\ sc_handler = "get_mesh_vtk" /\ sc_pc = "run"
    /\ \E mesh_file \in mg_pending, result \in FileResults :
          /\ result.status # "success"
          /\ mg_pending' = mg_pending \ {mesh_file}
          /\ sc_last' = [outcome |-> "failed", len_before |-> Len(combined_points),
                         offset_before |-> point_offset]
    /\ UNCHANGED <<sc_handler, sc_pc, combined_points, combined_cells, point_offset,
                   sc_src, sc_trace, sc_produced>>
    /\ plUnchanged
    /\ UNCHANGED <<nzVars, exVars, bmVars, fxVars, hqVars, gmVars, lfVars, spVars>>

\* the group of a file's result stored under a prefixed name
GroupOfName(stem, cells, name) ==
    CHOOSE g \in DOMAIN cells : PrefixedName(stem, g) = name

\* the body of the loop for a file that was read
GetMeshVtkMerge ==
    /\ sc_handler = "get_mesh_vtk" /\ sc_pc = "run"
    /\ \E mesh_file \in mg_pending, result \in FileResults :
          LET new_names == { PrefixedName(mesh_file, g) : g \in DOMAIN result.cells }
          IN  /\ result.status = "success"
              /\ combined_points' = combined_points \o result.points
              /\ combined_cells' =
                    [n \in DOMAIN combined_cells \cup new_names |->
                       IF n \in new_names
                       THEN LET group_data == result.cells[GroupOfName(mesh_file, result.cells, n)]
                            IN  [type |-> group_data.type,
                                 connectivity |->
                                     ShiftCells(group_data.connectivity, point_offset)]
                       ELSE combined_cells[n]]
              /\ point_offset' = NextOffset(point_offset, result.points)
              /\ sc_trace' =
                    [n \in DOMAIN sc_trace \cup new_names |->
                       IF n \in new_names
                       THEN [local |-> result.cells[GroupOfName(mesh_file, result.cells, n)]
                                         .connectivity,
                             start |-> Len(combined_points)]
                       ELSE sc_trace[n]]
              /\ sc_src' =
                    [n \in DOMAIN sc_src \cup new_names |->
                       IF n \in new_names
                       THEN mesh_file \o "/" \o GroupOfName(mesh_file, result.cells, n)
                       ELSE sc_src[n]]
              /\ sc_last' = [outcome |-> IF result.points = <<>> THEN "empty" ELSE "merged",
                             len_before |-> Len(combined_points),
                             offset_before |-> point_offset]
              /\ sc_produced' = sc_produced + Cardinality(DOMAIN result.cells)
              /\ mg_pending' = mg_pending \ {mesh_file}
    /\ UNCHANGED <<sc_handler, sc_pc>>
    /\ plUnchanged
    /\ UNCHANGED <<nzVars, exVars, bmVars, fxVars, hqVars, gmVars, lfVars, spVars>>

\* return jsonify({"status": "success", ...}) once every file was visited
GetMeshVtkReturn ==
    /\ sc_handler = "get_mesh_vtk" /\ sc_pc = "run"
    /\ mg_pending = {} /\ sc_last # NoLast
    /\ sc_pc' = "success"
    /\ UNCHANGED <<sc_handler, mg_pending, combined_points, combined_cells, point_offset,
                   sc_src, sc_trace, sc_last, sc_produced>>
    /\ plUnchanged
    /\ UNCHANGED <<nzVars, exVars, bmVars, fxVars, hqVars, gmVars, lfVars, spVars>>

\* what a .json file of the folder holds: nothing json.load can read, a
\* payload whose status is not "success", or a mesh payload of med_mesher
JsonFiles ==
    { [status |-> "unreadable", points |-> <<>>, connectivity |-> <<>>, vtk_type |-> 0],
      [status |-> "error", points |-> <<>>, connectivity |-> <<>>, vtk_type |-> 0] }
    \cup { [status |-> "success", points |-> <<>>, connectivity |-> <<>>, vtk_type |-> 5] }
    \cup UNION { [status : {"success"}, points : {FilePoints(n)}, vtk_type : {t},
                  connectivity : { GroupConnectivity(t, first, n) : first \in 0..(n - 1) }] :
                   n \in 1..MaxFilePts, t \in {3, 5} }

\* variant: the offset advanced by the length of the flat list
HqNextOffsetByLength(offset, pts) == offset + FlatLen(pts)

\* num_pts_in_mesh = len(pts) // 3; point_offset += num_pts_in_mesh
HqNextOffset(offset, pts) == offset + (FlatLen(pts) \div 3)

\* except: continue, and if mesh_data.get("status") != "success": continue
GetHqAssemblySkip ==
    /\ sc_handler = "get_hq_assembly" /\ sc_pc = "run"
    /\ \E j_file \in mg_pending, mesh_data \in JsonFiles :
          /\ mesh_data.status # "success"
          /\ mg_pending' = mg_pending \ {j_file}
          /\ sc_last' = [outcome |-> "failed", len_before |-> Len(combined_points),
                         offset_before |-> point_offset]
    /\ UNCHANGED <<sc_handler, sc_pc, combined_points, combined_cells, point_offset,
                   sc_src, sc_trace, sc_produced>>
    /\ plUnchanged
    /\ UNCHANGED <<nzVars, exVars, bmVars, fxVars, hqVars, gmVars, lfVars, spVars>>

\* the body of the loop for a payload that was read; mesh_name is the file's
\* name without its extension
GetHqAssemblyMerge ==
    /\ sc_handler = "get_hq_assembly" /\ sc_pc = "run"
    /\ \E j_file \in mg_pending, mesh_data \in JsonFiles :
          LET pts == mesh_data.points
              conn == mesh_data.connectivity
              mesh_name == j_file
          IN  /\ mesh_data.status = "success"
              /\ combined_points' = combined_points \o pts
              /\ combined_cells' = Put(combined_cells, mesh_name,
                                       [type |-> CellTypeStr(mesh_data.vtk_type),
                                        connectivity |-> ShiftCells(conn, point_offset)])
              /\ point_offset' = HqNextOffset(point_offset, pts)
              /\ sc_trace' = Put(sc_trace, mesh_name,
                                 [local |-> conn, start |-> Len(combined_points)])
              /\ sc_src' = Put(sc_src, mesh_name, j_file)
              /\ sc_last' = [outcome |-> IF pts = <<>> THEN "empty" ELSE "merged",
                             len_before |-> Len(combined_points),
                             offset_before |-> point_offset]
              /\ sc_produced' = sc_produced + 1
              /\ mg_pending' = mg_pending \ {j_file}
    /\ UNCHANGED <<sc_handler, sc_pc>>
    /\ plUnchanged
    /\ UNCHANGED <<nzVars, exVars, bmVars, fxVars, hqVars, gmVars, lfVars, spVars>>

\* return jsonify({"status": "success", ...})
GetHqAssemblyReturn ==
    /\ sc_handler = "get_hq_assembly" /\ sc_pc = "run"
    /\ mg_pending = {}
    /\ sc_pc' = "success"
    /\ UNCHANGED <<sc_handler, mg_pending, combined_points, combined_cells, point_offset,
                   sc_src, sc_trace, sc_last, sc_produced>>
    /\ plUnchanged
    /\ UNCHANGED <<nzVars, exVars, bmVars, fxVars, hqVars, gmVars, lfVars, spVars>>

(***************************************************************************)
(* EXTRACTION OF ONE FILE                                                  *)
(* backend/services/med/med_mesher.py, med_extractor.py, med_extruder.py   *)
(*                                                                         *)
(* What the mesh-topology provider reports for a file: the number of its   *)
(* meshes, the number of cells of the first mesh at its top level (-1 when *)
(* reading it raises) and, for every group, its number of cells (-1 when   *)
(* reading the group as cells raises) and of nodes.                        *)
(***************************************************************************)
FxGroupKeys == {"g1", "g2"}

ProviderGroupReports == [cells : -1..MaxFxCells, nodes : 0..1]

\* the cells of a group are cells of the mesh
ProviderFiles ==
    { [meshes |-> 0, full |-> 0, groups |-> EmptyMap] } \cup
    { f \in UNION { [meshes : {1}, full : -1..MaxFxCells,
                     groups : [D -> ProviderGroupReports]] : D \in SUBSET FxGroupKeys } :
        f.full >= 0 => \A g \in DOMAIN f.groups : f.groups[g].cells <= f.full }

NoFile == [meshes |-> 0, full |-> 0, groups |-> EmptyMap]
NoExtraction == [status |-> "none", keys |-> {}]

FxIdle ==
    /\ fx_pc = "idle"
    /\ fx_file = NoFile
    /\ fx_result = NoExtraction

FxInit ==
    /\ fx_pc = "input"
    /\ fx_file \in ProviderFiles
    /\ fx_result = NoExtraction

\* med_mesher.py: the export targets are the full mesh, when it was read and
\* has cells, and every group read with cells; their names are returned
extract_and_save_mesh(file) ==
    IF file.meshes = 0
    THEN [status |-> "error", keys |-> {}]
    ELSE LET export_targets ==
                 (IF file.full > 0 THEN {FullMeshKey} ELSE {})
                 \cup { g \in DOMAIN file.groups : file.groups[g].cells > 0 }
         IN  [status |-> "success", keys |-> export_targets]

\* med_extractor.py: results holds every group read with cells and every
\* other group that has nodes
extract_med_data(file) ==
    IF file.meshes = 0
    THEN [status |-> "error", keys |-> {}]
    ELSE LET results ==
                 { g \in DOMAIN file.groups :
                     file.groups[g].cells > 0 \/ file.groups[g].nodes > 0 }
         IN  [status |-> "success", keys |-> results]

\* med_extruder.py without geometries: one sub-mesh for every group with
\* cells, "No meshes to merge" without any
perform_extrusion(file) ==
    IF file.meshes = 0
    THEN [status |-> "error", keys |-> {}]
    ELSE LET group_meta == { g \in DOMAIN file.groups : file.groups[g].cells > 0 }
         IN  IF group_meta = {}
             THEN [status |-> "error", keys |-> {}]
             ELSE [status |-> "success", keys |-> group_meta]

CallExtractAndSaveMesh ==
    /\ fx_pc = "input"
    /\ fx_result' = extract_and_save_mesh(fx_file)
    /\ fx_pc' = "med_mesher"
    /\ UNCHANGED fx_file
    /\ UNCHANGED <<nzVars, exVars, bmVars, scVars, hqVars, gmVars, lfVars, spVars>>

CallExtractMedData ==
    /\ fx_pc = "input"
    /\ fx_result' = extract_med_data(fx_file)
    /\ fx_pc' = "med_extractor"
    /\ UNCHANGED fx_file
    /\ UNCHANGED <<nzVars, exVars, bmVars, scVars, hqVars, gmVars, lfVars, spVars>>

CallPerformExtrusion ==
    /\ fx_pc = "input"
    /\ fx_result' = perform_extrusion(fx_file)
    /\ fx_pc' = "med_extruder"
    /\ UNCHANGED fx_file
    /\ UNCHANGED <<nzVars, exVars, bmVars, scVars, hqVars, gmVars, lfVars, spVars>>

(***************************************************************************)
(* The hand-off from med_mesher.py to the pipeline.                        *)
(* backend/services/med/vtk_extruder.py, call_med_mesher, runs             *)
(* `python med_mesher.py <file>` and reads what the process printed, one   *)
(* printed line being one value of stdout.                                 *)
(***************************************************************************)
JsonStart == "__JSON_START__"
JsonEnd == "__JSON_END__"

\* med_mesher.py, __main__ on a file: extract_and_save_mesh is called and what
\* it returns is dropped; it has printed the full-mesh warning and one line
\* for every file it saved, and __main__ prints the closing line
MesherProcess(file) ==
    LET res == extract_and_save_mesh(file)
        warn == IF file.meshes > 0 /\ file.full < 0 THEN <<"[WARN]">> ELSE <<>>
        saved == [i \in 1..Cardinality(res.keys) |-> "-> Saved"]
    IN  [returncode |-> 0, stdout |-> (warn \o saved) \o <<"[FINISH]">>]

\* output.split("__JSON_START__")[1].split("__JSON_END__")[0]: the lines after
\* the first start marker, up to the next end marker
JsonStr(output) ==
    LET start == CHOOSE i \in DOMAIN output :
                    output[i] = JsonStart /\ \A j \in 1..(i - 1) : output[j] # JsonStart
        rest == SubSeq(output, start + 1, Len(output))
        stops == { i \in DOMAIN rest : rest[i] \in {JsonStart, JsonEnd} }
    IN  IF stops = {} THEN rest
        ELSE SubSeq(rest, 1, (CHOOSE i \in stops : \A j \in stops : i <= j) - 1)

MesherFailed == [status |-> "error", keys |-> {}]

\* json.loads: a JSON document is one line holding the status and the groups
\* printed; anything else raises, which call_med_mesher catches
JsonLoads(json_str) ==
    IF Len(json_str) = 1 /\ json_str[1] \in { "{success}", "{error}" }
    THEN [status |-> IF json_str[1] = "{success}" THEN "success" ELSE "error",
          keys |-> {}]
    ELSE MesherFailed

call_med_mesher(env_exists, result) ==
    IF ~env_exists THEN MesherFailed
    ELSE IF result.returncode = 0
         THEN IF (\E i \in DOMAIN result.stdout : result.stdout[i] = JsonStart)
                 /\ (\E i \in DOMAIN result.stdout : result.stdout[i] = JsonEnd)
              THEN JsonLoads(JsonStr(result.stdout))
              ELSE MesherFailed
         ELSE MesherFailed

CallMedMesher ==
    /\ fx_pc = "input"
    /\ \E env_exists \in BOOLEAN :
          fx_result' = call_med_mesher(env_exists, MesherProcess(fx_file))
    /\ fx_pc' = "call_med_mesher"
    /\ UNCHANGED fx_file
    /\ UNCHANGED <<nzVars, exVars, bmVars, scVars, hqVars, gmVars, lfVars, spVars>>

(***************************************************************************)
(* GET_HQ_ASSEMBLY, SEVERAL REQUESTS ON ONE PROJECT FOLDER                 *)
(* backend/api/routes.py, get_hq_assembly; med_mesher.py run as a process  *)
(*                                                                         *)
(* The folder holds one mesh file; med_mesher writes one .json file for    *)
(* the full mesh and one for its group into the folder.  open(path, 'w')   *)
(* empties the file and json.dump fills it: between the two the file holds *)
(* no JSON value.  A request runs the mesher, lists the .json files of the *)
(* folder, then loads them one by one.                                     *)
(***************************************************************************)
HqRequests == {1, 2}

\* final_name for the key "_FULL_MESH_" and for a group, without ".json"
HqTargets == <<"a", "a_c">>

HqNoRequest == [pc |-> "off", writes |-> <<>>, listed |-> {}, merged |-> {}]

HqIdle ==
    /\ hq_files = [n \in Range(HqTargets) |-> "absent"]
    /\ hq_req = [r \in HqRequests |-> HqNoRequest]

\* the folder before the requests: never extracted, or extracted before; one
\* request at least comes in
HqInit ==
    /\ \E before \in {"absent", "complete"} :
          hq_files = [n \in Range(HqTargets) |-> before]
    /\ hq_req \in [HqRequests -> {HqNoRequest, [HqNoRequest EXCEPT !.pc = "start"]}]
    /\ \E r \in HqRequests : hq_req[r].pc = "start"

hqFrame == UNCHANGED <<nzVars, exVars, bmVars, scVars, fxVars, gmVars, lfVars, spVars>>

\* subprocess.run(cmd, ...) starts med_mesher on the mesh file
HqRunMesher(r) ==
    /\ hq_req[r].pc = "start"
    /\ hq_req' = [hq_req EXCEPT ![r].pc = "extract", ![r].writes = HqTargets]
    /\ UNCHANGED hq_files
    /\ hqFrame

\* with open(final_path, 'w', encoding='utf-8') as f:
HqOpenForWrite(r) ==
    /\ hq_req[r].pc = "extract" /\ hq_req[r].writes # <<>>
    /\ hq_files' = [hq_files EXCEPT ![Head(hq_req[r].writes)] = "partial"]
    /\ hq_req' = [hq_req EXCEPT ![r].pc = "dump"]
    /\ hqFrame

\* json.dump(payload, f, ...) and the end of the with block
HqDump(r) ==
    /\ hq_req[r].pc = "dump"
    /\ hq_files' = [hq_files EXCEPT ![Head(hq_req[r].writes)] = "complete"]
    /\ hq_req' = [hq_req EXCEPT ![r].pc = "extract", ![r].writes = Tail(@)]
    /\ hqFrame

\* the mesher has ended: json_files = [f for f in os.listdir(folder_path) ...]
HqListJsonFiles(r) ==
    /\ hq_req[r].pc = "extract" /\ hq_req[r].writes = <<>>
    /\ hq_req' = [hq_req EXCEPT ![r].pc = "aggregate",
                                ![r].listed = { n \in DOMAIN hq_files :
                                                  hq_files[n] # "absent" }]
    /\ UNCHANGED hq_files
    /\ hqFrame

\* one turn of the loop over json_files: json.load, "except: continue" when
\* the file holds no JSON value, else the component is merged
HqLoadJson(r) ==
    /\ hq_req[r].pc = "aggregate"
    /\ \E j_file \in hq_req[r].listed :
          hq_req' = [hq_req EXCEPT
                        ![r].listed = @ \ {j_file},
                        ![r].merged = IF hq_files[j_file] = "complete"
                                      THEN @ \cup {j_file} ELSE @]
    /\ UNCHANGED hq_files
    /\ hqFrame

\* return jsonify({"status": "success", ...})
HqReturn(r) ==
    /\ hq_req[r].pc = "aggregate" /\ hq_req[r].listed = {}
    /\ hq_req' = [hq_req EXCEPT ![r].pc = "done"]
    /\ UNCHANGED hq_files
    /\ hqFrame

(***************************************************************************)
(* The payload a handler returns once it has returned with success.        *)
(***************************************************************************)
\* return {"status": "success", "points": final_points, "cells": final_cells,
\*         "num_points": len(final_points) // 3, "num_groups": len(final_cells)}
PipelinePayload ==
    [status |-> "success", points |-> final_points, cells |-> final_cells,
     num_points |-> FlatLen(final_points) \div 3,
     num_groups |-> Cardinality(DOMAIN final_cells)]

\* jsonify({"status": "success", "points": ..., "cells": ..., "num_points":
\*          len(combined_points), "num_groups": len(combined_cells)})
GetMeshVtkPayload ==
    [status |-> "success", points |-> combined_points, cells |-> combined_cells,
     num_points |-> TripleLen(combined_points),
     num_groups |-> Cardinality(DOMAIN combined_cells)]

\* jsonify({"status": "success", "points": ..., "cells": ..., "num_points":
\*          len(combined_points) // 3})
GetHqAssemblyPayload ==
    [status |-> "success", points |-> combined_points, cells |-> combined_cells,
     num_points |-> FlatLen(combined_points) \div 3]

(***************************************************************************)
(* GEOMETRY BUILDER                                                        *)
(* backend/services/jinja/builders/geometry.py, build_geometry             *)
(*                                                                         *)
(* An item of geometry_list is a dict; a key the dict does not hold is     *)
(* written Absent.  The group of an item is its position in the list.      *)
(* The items of the model hold no _category key and no section_params.     *)
(***************************************************************************)
Absent == "<absent>"

\* item.get(key, default)
Get(item, key, default) == IF item[key] = Absent THEN default ELSE item[key]

\* str.upper() on the strings of the model
Upper(str) ==
    CASE str = "Solid" -> "SOLID"
      [] str = "Node" -> "NODE"
      [] OTHER -> str

ItemTypes == {Absent, "POU_D_E", "POU_D_T", "BARRE", "DKT", "Node"}
ItemSectionTypes == {Absent, "BEAM", "SHELL", "Solid"}
ItemFormulations == {Absent, "DST"}

GeometryItems ==
    [type : ItemTypes, section_type : ItemSectionTypes, formulation : ItemFormulations]

GeometryLists ==
    { [i \in DOMAIN l |-> [group |-> i, type |-> l[i].type,
                           section_type |-> l[i].section_type,
                           formulation |-> l[i].formulation]] :
        l \in SeqsUpTo(GeometryItems, MaxItems) }

\* the section type of an item: the explicit one, else guessed from the type
SectionType(item) ==
    LET element_type == Upper(Get(item, "type", "Solid"))
        section_type == Upper(Get(item, "section_type", ""))
    IN  IF section_type # "" THEN section_type
        ELSE IF element_type \in {"SHELL", "DKT", "DST", "COQUE"} THEN "SHELL"
        ELSE IF element_type \in {"BEAM", "POUTRE", "BARRE"} THEN "BEAM"
        ELSE "SOLID"

BeamSectionTypes == {"I_SECTION", "RECTANGLE", "BOX", "CIRCLE", "TUBE", "BEAM"}

\* variant: a beam item is given the modelisation its type names
BeamModelisationFromType(item) == Upper(Get(item, "type", "POU_D_T"))

\* the modelisation a beam item is given
BeamModelisation(item) == "POU_D_T"

\* what one item adds to model_items and to cara_items
ModelItemsOf(item) ==
    IF Upper(Get(item, "type", "Solid")) = "NODE" THEN <<>>
    ELSE IF SectionType(item) = "SHELL"
         THEN << [group |-> item.group,
                  modelisation |-> Upper(Get(item, "formulation", "DKT"))] >>
    ELSE IF SectionType(item) \in BeamSectionTypes
         THEN << [group |-> item.group, modelisation |-> BeamModelisation(item)] >>
    ELSE << [group |-> item.group, modelisation |-> "3D"] >>

CaraItemsOf(item) ==
    IF Upper(Get(item, "type", "Solid")) = "NODE" THEN <<>>
    ELSE IF SectionType(item) = "SHELL"
         THEN << [type |-> "COQUE", group |-> item.group] >>
    ELSE IF SectionType(item) \in BeamSectionTypes
         THEN << [type |-> "POUTRE", group |-> item.group] >>
    ELSE <<>>

build_geometry(geometry_list) ==
    [model_items |-> Flatten([i \in DOMAIN geometry_list |-> ModelItemsOf(geometry_list[i])]),
     cara_items  |-> Flatten([i \in DOMAIN geometry_list |-> CaraItemsOf(geometry_list[i])])]

NoGeometry == [model_items |-> <<>>, cara_items |-> <<>>]

GmIdle ==
    /\ gm_pc = "idle"
    /\ gm_list = <<>>
    /\ gm_result = NoGeometry

GmInit ==
    /\ gm_pc = "input"
    /\ gm_list \in GeometryLists
    /\ gm_result = NoGeometry

BuildGeometry ==
    /\ gm_pc = "input"
    /\ gm_result' = build_geometry(gm_list)
    /\ gm_pc' = "done"
    /\ UNCHANGED gm_list
    /\ UNCHANGED <<nzVars, exVars, bmVars, scVars, fxVars, hqVars, lfVars, spVars>>

(***************************************************************************)
(* LOCAL FRAME OF A BEAM SEGMENT                                           *)
(* backend/services/med/vtk_extruder.py, extrude_beam_memory, the loop     *)
(* over the segments.                                                      *)
(*                                                                         *)
(* A vector is a triple of integers.  A unit vector v / |v| is kept as its *)
(* direction v; dividing the zero vector by its norm gives no direction    *)
(* (NaN components), kept as the zero triple.                              *)
(***************************************************************************)
Dot(a, b) == a[1] * b[1] + a[2] * b[2] + a[3] * b[3]

Cross(a, b) ==
    << a[2] * b[3] - a[3] * b[2], a[3] * b[1] - a[1] * b[3], a[1] * b[2] - a[2] * b[1] >>

Scale(k, v) == << k * v[1], k * v[2], k * v[3] >>

Plus(a, b) == << a[1] + b[1], a[2] + b[2], a[3] + b[3] >>

Zero3 == <<0, 0, 0>>
AxisY == <<0, 1, 0>>
AxisZ == <<0, 0, 1>>

\* variant: the global Z axis is the reference for every segment
UpRefAlwaysZ(vec) == AxisZ

\* up_ref is Z, or Y when abs(dot(vec / |vec|, Z)) > 0.99
UpRef(vec) ==
    IF 10000 * Dot(vec, AxisZ) * Dot(vec, AxisZ) > 9801 * Dot(vec, vec)
    THEN AxisY ELSE AxisZ

\* x_axis = dir_v, y_axis = cross(up_ref, x_axis), z_axis = cross(x_axis, y_axis),
\* the last two divided by their norm
LocalFrame(vec) ==
    LET y_axis == Cross(UpRef(vec), vec)
    IN  [x_axis |-> vec, y_axis |-> y_axis, z_axis |-> Cross(vec, y_axis)]

\* the segments of the model: every non-zero vector of small integers, and two
\* that are nearly but not exactly vertical
SegmentVectors ==
    ({ v \in [1..3 -> (-MaxCoord)..MaxCoord] : v # Zero3 })
        \cup { <<1, 0, 8>>, <<0, 1, -8>> }

NoFrame == [x_axis |-> Zero3, y_axis |-> Zero3, z_axis |-> Zero3]

LfIdle ==
    /\ lf_pc = "idle"
    /\ lf_vec = Zero3
    /\ lf_frame = NoFrame

LfInit ==
    /\ lf_pc = "input"
    /\ lf_vec \in SegmentVectors
    /\ lf_frame = NoFrame

ComputeLocalFrame ==
    /\ lf_pc = "input"
    /\ lf_frame' = LocalFrame(lf_vec)
    /\ lf_pc' = "done"
    /\ UNCHANGED lf_vec
    /\ UNCHANGED <<nzVars, exVars, bmVars, scVars, fxVars, hqVars, gmVars, spVars>>

(***************************************************************************)
(* PLACEMENT OF A SHELL POINT                                              *)
(* backend/services/med/vtk_extruder.py, extrude_shell_memory, and         *)
(* backend/services/med/med_extruder.py, perform_extrusion.                *)
(*                                                                         *)
(* A point of the mid-surface has a unit normal, here one of the six axis  *)
(* directions.  The builders make two copies of it, one on the base face   *)
(* and one on the top face.  Positions are displacements from the point,   *)
(* counted in half units so that thickness / 2 is an integer.              *)
(***************************************************************************)
PointNormals ==
    { <<1, 0, 0>>, <<-1, 0, 0>>, <<0, 1, 0>>, <<0, -1, 0>>, <<0, 0, 1>>, <<0, 0, -1>> }

ShellInputs ==
    [normal : PointNormals, thickness : 1..MaxThickness,
     offset : (-MaxOffset)..MaxOffset]

\* vtkWarpVector with scale factor offset - thickness / 2 moves the point along
\* its normal; vtkLinearExtrusionFilter, normal extrusion with scale factor
\* thickness, keeps the moved point and adds a copy thickness further
ExtrudeShellPlacement(in) ==
    LET base == Scale(2 * in.offset - in.thickness, in.normal)
    IN  [base |-> base, top |-> Plus(base, Scale(2 * in.thickness, in.normal))]

\* the path is the segment (0, 0, z_start) -> (0, 0, z_end) with
\* z_start = offset - thickness / 2 and z_end = offset + thickness / 2;
\* buildExtrudedMesh(path, 0) keeps the points of the group as the first level
\* and adds a copy translated by the vector of the path's segment
PerformExtrusionPlacement(in) ==
    LET z_start == 2 * in.offset - in.thickness
        z_end == 2 * in.offset + in.thickness
    IN  [base |-> Zero3, top |-> Plus(Zero3, <<0, 0, z_end - z_start>>)]

NoShellInput == [normal |-> AxisZ, thickness |-> 1, offset |-> 0]
NoPlacement == [base |-> Zero3, top |-> Zero3]

SpIdle ==
    /\ sp_pc = "idle"
    /\ sp_in = NoShellInput
    /\ sp_out = NoPlacement

SpInit ==
    /\ sp_pc = "input"
    /\ sp_in \in ShellInputs
    /\ sp_out = NoPlacement

PlaceByExtrudeShellMemory ==
    /\ sp_pc = "input"
    /\ sp_out' = ExtrudeShellPlacement(sp_in)
    /\ sp_pc' = "extrude_shell_memory"
    /\ UNCHANGED sp_in
    /\ UNCHANGED <<nzVars, exVars, bmVars, scVars, fxVars, hqVars, gmVars, lfVars>>

PlaceByPerformExtrusion ==
    /\ sp_pc = "input"
    /\ sp_out' = PerformExtrusionPlacement(sp_in)
    /\ sp_pc' = "med_extruder"
    /\ UNCHANGED sp_in
    /\ UNCHANGED <<nzVars, exVars, bmVars, scVars, fxVars, hqVars, gmVars, lfVars>>

(***************************************************************************)
(* SPECIFICATIONS: one part of the pipeline runs, the others stay idle.    *)
(***************************************************************************)
NzNext == ProcessConnectivity

InitNorm == NzInit /\ ExIdle /\ BmIdle /\ ScIdle /\ FxIdle /\ HqIdle /\ GmIdle /\ LfIdle /\ SpIdle

SpecNorm == InitNorm /\ [][NzNext]_vars

ExNext == ExtractAndSaveMesh \/ ExtractMedData \/ PerformExtrusion

InitExtract == ExInit /\ NzIdle /\ BmIdle /\ ScIdle /\ FxIdle /\ HqIdle /\ GmIdle /\ LfIdle /\ SpIdle

SpecExtract == InitExtract /\ [][ExNext]_vars

BmNext == NormalizeLineConnectivity \/ ExtrudeBeamMemory

InitBeam == BmInit /\ NzIdle /\ ExIdle /\ ScIdle /\ FxIdle /\ HqIdle /\ GmIdle /\ LfIdle /\ SpIdle

SpecBeam == InitBeam /\ [][BmNext]_vars

ScNext ==
    \/ ProcessBeam \/ ProcessShell \/ PassThrough
    \/ PipelineSkipFullMesh \/ PipelineAbort \/ PipelineNoGroups \/ PipelineReturn
    \/ GetMeshVtkNoFiles \/ GetMeshVtkSkip \/ GetMeshVtkMerge \/ GetMeshVtkReturn
    \/ GetHqAssemblySkip \/ GetHqAssemblyMerge \/ GetHqAssemblyReturn

InitScene ==
    (PipelineInit \/ MergeInit) /\ NzIdle /\ ExIdle /\ BmIdle /\ FxIdle /\ HqIdle /\ GmIdle /\ LfIdle /\ SpIdle

SpecScene == InitScene /\ [][ScNext]_vars

FxNext ==
    \/ CallExtractAndSaveMesh \/ CallExtractMedData \/ CallPerformExtrusion
    \/ CallMedMesher

InitFile == FxInit /\ NzIdle /\ ExIdle /\ BmIdle /\ ScIdle /\ HqIdle /\ GmIdle /\ LfIdle /\ SpIdle

SpecFile == InitFile /\ [][FxNext]_vars

HqNext ==
    \E r \in HqRequests :
        \/ HqRunMesher(r) \/ HqOpenForWrite(r) \/ HqDump(r)
        \/ HqListJsonFiles(r) \/ HqLoadJson(r) \/ HqReturn(r)

InitHq ==
    HqInit /\ NzIdle /\ ExIdle /\ BmIdle /\ ScIdle /\ FxIdle /\ GmIdle /\ LfIdle /\ SpIdle

SpecHq == InitHq /\ [][HqNext]_vars

GmNext == BuildGeometry

InitGeometry ==
    GmInit /\ NzIdle /\ ExIdle /\ BmIdle /\ ScIdle /\ FxIdle /\ HqIdle /\ LfIdle /\ SpIdle

SpecGeometry == InitGeometry /\ [][GmNext]_vars

LfNext == ComputeLocalFrame

InitFrame ==
    LfInit /\ NzIdle /\ ExIdle /\ BmIdle /\ ScIdle /\ FxIdle /\ HqIdle /\ GmIdle /\ SpIdle

SpecFrame == InitFrame /\ [][LfNext]_vars

SpNext == PlaceByExtrudeShellMemory \/ PlaceByPerformExtrusion

InitShell ==
    SpInit /\ NzIdle /\ ExIdle /\ BmIdle /\ ScIdle /\ FxIdle /\ HqIdle /\ GmIdle /\ LfIdle

SpecShell == InitShell /\ [][SpNext]_vars

(***************************************************************************)
(* CLAIMS                                                                  *)
(***************************************************************************)

\* the values a delivered connectivity holds, in order
PayloadValues(p) == IF p.shape = "flat" THEN p.conn ELSE Flatten(p.conn)

\* C4: round trip of the connectivity normalizer.  For n >= 1 tuples of one
\* length k >= 1, each encoded as a prefix value followed by its node ids,
\* process_connectivity(flat, n) returns the n original tuples in order; with
\* stride 1 every single value is kept as a tuple of its own.
C4_RoundTrip ==
    nz_pc = "done" =>
        /\ nz_mode = "encoded" =>
              nz_result.raised = "none" /\ nz_result.value = nz_tuples
        /\ nz_mode = "stride1" =>
              /\ nz_result.raised = "none"
              /\ nz_result.value = [i \in 1..nz_n |-> <<nz_flat[i]>>]

\* C4 witness: the example [3,1,2,3, 3,4,5,6, 3,7,8,9] with n = 3 has been
\* normalized to [(1,2,3),(4,5,6),(7,8,9)].
C4_Witness ==
    /\ nz_pc = "done"
    /\ nz_mode = "encoded"
    /\ nz_flat = <<3, 1, 2, 3, 3, 4, 5, 6, 3, 7, 8, 9>>
    /\ nz_n = Len(ExampleTuples)
    /\ nz_result.value = ExampleTuples

\* C5: the normalizer fails with MalformedConnectivityError whenever the flat
\* length is not an exact multiple of the element count n (n >= 1), or the
\* tuples would end up empty, instead of returning a result.
C5_MalformedRaises ==
    (/\ nz_pc = "done"
     /\ nz_n >= 1
     /\ nz_flat # <<>>
     /\ (Len(nz_flat) % nz_n # 0 \/ Len(nz_flat) \div nz_n = 0))
        => nz_result.raised = "MalformedConnectivityError"

\* C6: every connectivity an extractor or extruder delivers has gone through
\* the normalizer: what is delivered for a group is exactly the node ids of
\* its cells (as point indices of the delivered points), no prefix value.
C6_NoPrefixDelivered ==
    ex_pc \in {"med_mesher", "med_extractor", "med_extruder"} =>
        \A i \in DOMAIN ex_payload :
            PayloadValues(ex_payload[i])
                = Flatten(ShiftCells(ex_groups[i].cells, ex_payload[i].shift))

\* a segment of two distinct points, and a zero-length segment (p, p)
IsValidSegment(seg) == Len(seg) = 2 /\ SegVec(seg, BeamPts) # 0
IsDegenerateSegment(seg) == Len(seg) = 2 /\ SegVec(seg, BeamPts) = 0

\* C9: beam direction normalization.  For every group of non-degenerate
\* collinear segments, in any mix of vertex orders, all segments point the
\* same way after normalize_line_connectivity.
C9_SameDirection ==
    (/\ bm_pc = "normalized"
     /\ bm_conn # <<>>
     /\ \A i \in DOMAIN bm_conn : IsValidSegment(bm_conn[i]))
        => \A i, j \in DOMAIN bm_norm :
              Sign(SegVec(bm_norm[i], BeamPts)) = Sign(SegVec(bm_norm[j], BeamPts))

\* C10: degenerate segment skip.  A zero-length segment (p, p) is left alone
\* by the direction normalization and contributes no geometry to the sweep:
\* the swept solid holds one fragment for every valid segment of the group, in
\* order, between that segment's two ends, and nothing else.
C10_DegenerateSkipped ==
    /\ bm_pc \in {"normalized", "swept"} =>
          /\ Len(bm_norm) = Len(bm_conn)
          /\ \A i \in DOMAIN bm_conn :
                IsDegenerateSegment(bm_conn[i]) => bm_norm[i] = bm_conn[i]
    /\ bm_pc = "swept" =>
          LET valid == SelectSeq(bm_conn, IsValidSegment)
          IN  /\ Len(bm_res.segments) = Len(valid)
              /\ \A k \in DOMAIN bm_res.segments :
                    /\ bm_res.segments[k][1] # bm_res.segments[k][2]
                    /\ {bm_res.segments[k][1], bm_res.segments[k][2]}
                         = {Pt(BeamPts, valid[k][1]), Pt(BeamPts, valid[k][2])}
              /\ Len(bm_res.data.points)
                   = IF bm_section.triangles = <<>> THEN 0
                     ELSE 2 * bm_section.vertices * Len(valid)
              /\ Range(bm_res.data.points)
                   \subseteq UNION { {Pt(BeamPts, valid[k][1]), Pt(BeamPts, valid[k][2])} :
                                       k \in DOMAIN valid }

\* C10 witness: a group of one degenerate and two valid segments has been swept
\* with a square profile and holds two fragments.
C10_Witness ==
    /\ bm_pc = "swept"
    /\ bm_section = SquareProfile
    /\ Len(bm_conn) = 3
    /\ Len(SelectSeq(bm_conn, IsDegenerateSegment)) = 1
    /\ Len(SelectSeq(bm_conn, IsValidSegment)) = 2
    /\ Len(bm_res.segments) = 2
    /\ bm_res.data.status # "empty"

\* the merged scene of the request: its points and its components
ScenePoints ==
    IF sc_handler = "med_to_vtk_pipeline" THEN final_points ELSE combined_points

SceneCells ==
    IF sc_handler = "med_to_vtk_pipeline" THEN final_cells ELSE combined_cells

\* every index of a connectivity resolves in an array of npts points
IndicesWithin(connectivity, npts) ==
    \A c \in DOMAIN connectivity : \A j \in DOMAIN connectivity[c] :
        connectivity[c][j] >= 0 /\ connectivity[c][j] < npts

\* C1: index validity.  At every step of every assembler, whatever the
\* number of components, their point counts and the order they arrive in,
\* every connectivity index stored under every component of the merged scene
\* is >= 0 and < the number of points of the merged point array.
C1_IndexValidity ==
    sc_handler # "idle" =>
        \A name \in DOMAIN SceneCells :
            IndicesWithin(SceneCells[name].connectivity, Len(ScenePoints))

\* C1 witness: the single-file pipeline has returned a scene of five
\* components, one of them an extruded solid stored behind other solids.
C1_Witness ==
    /\ sc_handler = "med_to_vtk_pipeline"
    /\ sc_pc = "success"
    /\ Cardinality(DOMAIN final_cells) = 5
    /\ \E name \in DOMAIN final_cells :
          /\ final_cells[name].is_extruded
          /\ sc_trace[name].start > Len(pl_points)

\* C2: offset order.  Every index stored for a component equals the
\* component's local index plus the number of points merged before the
\* component's own points (for B merged after A: A.point_count + local index).
C2_OffsetOrder ==
    sc_handler # "idle" =>
        \A name \in DOMAIN SceneCells :
            /\ name \in DOMAIN sc_trace
            /\ SceneCells[name].connectivity
                 = ShiftCells(sc_trace[name].local, sc_trace[name].start)

\* C2 witness: get_hq_assembly has merged a component B after a component A
\* that holds points, and B has cells.
C2_Witness ==
    /\ sc_handler = "get_hq_assembly"
    /\ sc_pc = "success"
    /\ \E a, b \in DOMAIN combined_cells :
          /\ a # b
          /\ sc_trace[a].start = 0
          /\ sc_trace[b].start > 0
          /\ combined_cells[b].connectivity # <<>>
          /\ combined_cells[b].connectivity # sc_trace[b].local

\* C3: offset commit.  Between two steps of a merge the running offset
\* equals the number of points appended so far; a file or component that
\* failed or yielded empty geometry has appended no point and left the offset
\* as it was, and every stored index still resolves.
C3_OffsetCommit ==
    /\ sc_handler \in {"get_mesh_vtk", "get_hq_assembly"} =>
          point_offset = Len(combined_points)
    /\ (sc_handler # "idle" /\ sc_last.outcome \in {"failed", "empty"}) =>
          /\ Len(ScenePoints) = sc_last.len_before
          /\ sc_handler \in {"get_mesh_vtk", "get_hq_assembly"} =>
                point_offset = sc_last.offset_before
          /\ \A name \in DOMAIN SceneCells :
                IndicesWithin(SceneCells[name].connectivity, Len(ScenePoints))

\* C3 witness: a file has failed after another one was merged with points and
\* components.
C3_Witness ==
    /\ sc_handler = "get_mesh_vtk"
    /\ sc_last.outcome = "failed"
    /\ point_offset > 0
    /\ DOMAIN combined_cells # {}

\* C7: base-sibling invariant.  In the scene of the single-file pipeline every
\* extruded component has a base component built from the same group, and
\* every group the pipeline has processed still has its base component.
C7_BaseSibling ==
    sc_handler = "med_to_vtk_pipeline" =>
        /\ \A name \in DOMAIN final_cells :
              final_cells[name].is_extruded =>
                  \E b \in DOMAIN final_cells :
                      final_cells[b].is_base /\ sc_src[b] = sc_src[name]
        /\ \A g \in DOMAIN sc_groups :
              \E b \in DOMAIN final_cells : final_cells[b].is_base /\ sc_src[b] = g

\* C8: flat pass-through.  For every surface group whose thickness is 0,
\* negative or not configured the shell builder is not invoked and the scene
\* holds exactly one component built from the group, a base component that
\* is not extruded.
C8_FlatPassThrough ==
    sc_handler = "med_to_vtk_pipeline" =>
        \A g \in DOMAIN sc_groups :
            sc_groups[g].flat_surface =>
                /\ sc_groups[g].branch = "pass"
                /\ Cardinality({ n \in DOMAIN final_cells : sc_src[n] = g }) = 1
                /\ \A n \in DOMAIN final_cells :
                      sc_src[n] = g =>
                          final_cells[n].is_base /\ ~final_cells[n].is_extruded

\* the number of non-degenerate segments of the swept group
ValidSegments == Len(SelectSeq(bm_conn, IsValidSegment))

\* C11: empty profile.  When the cross-section profile has zero vertices the
\* sweep of a group fails with EmptyProfileError and emits no solid, not
\* even a partial one.
C11_EmptyProfileError ==
    (bm_pc = "swept" /\ bm_section.vertices = 0 /\ ValidSegments > 0)
        => /\ bm_res.raised = "EmptyProfileError"
           /\ bm_res.data.status = "empty"
           /\ bm_res.data.points = <<>>

\* C13: end-to-end point count.  A group of S non-degenerate segments swept
\* with a profile of V vertices gives a solid of S x V points whose
\* connectivity indices, before global offsetting, lie in [0, S x V).
C13_PointCount ==
    bm_pc = "swept" =>
        /\ Len(bm_res.data.points) = ValidSegments * bm_section.vertices
        /\ IndicesWithin(bm_res.data.connectivity, ValidSegments * bm_section.vertices)

\* C13 as amended: with a profile of V vertices and at least one triangle the
\* solid has 2 x S x V points, the profile's vertices at both ends of every
\* segment, and its indices lie in [0, 2 x S x V).
C13_PointCountBothEnds ==
    (bm_pc = "swept" /\ bm_section.triangles # <<>>) =>
        /\ Len(bm_res.data.points) = 2 * ValidSegments * bm_section.vertices
        /\ IndicesWithin(bm_res.data.connectivity,
                         2 * ValidSegments * bm_section.vertices)

\* C13 witness: two segments swept with the square profile give 16 points.
C13_Witness ==
    /\ bm_pc = "swept"
    /\ bm_section = SquareProfile
    /\ bm_conn = << <<0, 1>>, <<1, 2>> >>
    /\ Len(bm_res.data.points) = 16
    /\ \E c \in DOMAIN bm_res.data.connectivity :
          \E j \in DOMAIN bm_res.data.connectivity[c] :
              bm_res.data.connectivity[c][j] = 15

\* the components of the single-file scene built from group g
ComponentsOf(g) == { n \in DOMAIN final_cells : sc_src[n] = g }

\* C12: end-to-end components.  For a line group with a configured non-empty
\* profile and at least one non-degenerate segment the returned scene holds
\* exactly two components of the group: the base (type line, is_base, not
\* is_extruded) and the swept solid (is_extruded, not is_base).
C12_TwoComponents ==
    (sc_handler = "med_to_vtk_pipeline" /\ sc_pc = "success") =>
        \A g \in DOMAIN sc_groups :
            sc_groups[g].sweepable
                => /\ Cardinality(ComponentsOf(g)) = 2
                   /\ \E b \in ComponentsOf(g) :
                         /\ final_cells[b].type = "line"
                         /\ final_cells[b].is_base /\ ~final_cells[b].is_extruded
                   /\ \E e \in ComponentsOf(g) :
                         final_cells[e].is_extruded /\ ~final_cells[e].is_base

\* the payload of the request that has returned with success
Payload ==
    CASE sc_handler = "med_to_vtk_pipeline" -> PipelinePayload
      [] sc_handler = "get_mesh_vtk" -> GetMeshVtkPayload
      [] OTHER -> GetHqAssemblyPayload

\* C15: a failure while building one group's geometry skips only that group
\* and never aborts the scene: the handler goes on and the components of the
\* other groups are returned in a success payload.
C15_FailureSkipsUnit ==
    (/\ sc_handler = "med_to_vtk_pipeline"
     /\ sc_last.outcome = "raised"
     /\ DOMAIN final_cells # {})
        => sc_pc \in {"run", "success"}

\* C16: overall failure is reported exactly when zero groups produced any
\* geometry: a returned success holds at least one component, and an error
\* is returned only when no group of any file produced a component.
C16_FailureIffEmpty ==
    /\ (sc_handler # "idle" /\ sc_pc = "success") => DOMAIN SceneCells # {}
    /\ (sc_handler # "idle" /\ sc_pc = "error") => DOMAIN SceneCells = {}

\* C17: every success payload identifies what was skipped: besides the scene
\* and its counts it carries a count or a list of the skipped or failed
\* components or files.
C17_SkippedReported ==
    (sc_handler # "idle" /\ sc_pc = "success" /\ sc_last.outcome \in {"failed", "empty"})
        => DOMAIN Payload
             \ {"status", "points", "cells", "num_points", "num_groups"} # {}

\* C18: payload schema.  Every component of every success payload carries the
\* four fields type, connectivity, is_extruded and is_base.
C18_ComponentSchema ==
    (sc_handler # "idle" /\ sc_pc = "success") =>
        \A name \in DOMAIN Payload.cells :
            {"type", "connectivity", "is_extruded", "is_base"}
                \subseteq DOMAIN Payload.cells[name]

\* C14: concurrent scene-building requests do not interfere.  Whatever the
\* interleaving of two requests on one project folder, a request returns what
\* it returns when it runs alone: the components of every .json file of the
\* folder, which the extraction has written before the files are listed.
C14_NoInterference ==
    \A r \in HqRequests :
        hq_req[r].pc = "done" => hq_req[r].merged = Range(HqTargets)

\* C19: every successful result of the group extractor holds the synthetic
\* "_FULL_MESH_" entry.
C19_FullMeshAlways ==
    (fx_pc = "med_mesher" /\ fx_result.status = "success")
        => FullMeshKey \in fx_result.keys

\* the groups of the file that have an element: a cell, or a node
GroupsWithElements ==
    { g \in DOMAIN fx_file.groups :
        fx_file.groups[g].cells > 0 \/ fx_file.groups[g].nodes > 0 }

\* C20: group extraction gives an error result, never success, when the
\* provider reports zero meshes for the file or zero elements for every
\* group; a single group with zero elements is only skipped.
C20_NoMeshData ==
    fx_pc \in {"med_mesher", "med_extractor"} =>
        /\ (\/ fx_file.meshes = 0
            \/ (DOMAIN fx_file.groups # {} /\ GroupsWithElements = {}))
              => fx_result.status = "error"
        /\ fx_result.status = "success"
              => fx_result.keys \cap (DOMAIN fx_file.groups \ GroupsWithElements) = {}

\* C21: the group extractor has no side effect: it never writes to disk, so
\* no step of a request changes a file of the folder.
C21_NoDiskWrite == [][hq_files' = hq_files]_vars

\* C30: normalizing a connectivity that carries no prefix (its flat length is
\* n times the node count of the element type, n >= 1) loses no node id: the
\* tuples returned hold every value of the flat array, in order.
C30_NoPrefixNoLoss ==
    (/\ nz_pc = "done"
     /\ nz_mode = "raw"
     /\ nz_n >= 1
     /\ nz_flat # <<>>
     /\ Len(nz_flat) % nz_n = 0)
        => Flatten(nz_result.value) = nz_flat

\* C26: the mesher hand-off.  Whenever med_mesher.py processes the file
\* successfully, call_med_mesher returns the parsed result with status
\* "success", so that the pipeline goes on to build the scene.
C26_HandOff ==
    (fx_pc = "call_med_mesher" /\ extract_and_save_mesh(fx_file).status = "success")
        => fx_result.status = "success"

\* the modelisations build_geometry has assigned to a group
ModelisationsOf(group) ==
    { gm_result.model_items[k].modelisation :
        k \in { j \in DOMAIN gm_result.model_items :
                  gm_result.model_items[j].group = group } }

\* C22: build_geometry assigns to every beam item (section_type BEAM) the
\* modelisation its type names, POU_D_E, POU_D_T or BARRE, and POU_D_T when
\* the item has no type; a shell item gets its formulation and a solid item
\* gets 3D.
C22_BeamModelisation ==
    gm_pc = "done" =>
        \A i \in DOMAIN gm_list :
            LET item == gm_list[i]
            IN  /\ (item.section_type = "BEAM"
                        /\ item.type \in {Absent, "POU_D_E", "POU_D_T", "BARRE"})
                      => ModelisationsOf(item.group)
                            = { IF item.type = Absent THEN "POU_D_T" ELSE item.type }
                /\ (item.section_type = "SHELL" /\ item.type # "Node"
                        /\ item.formulation # Absent)
                      => ModelisationsOf(item.group) = { item.formulation }
                /\ (item.section_type = "Solid" /\ item.type # "Node")
                      => ModelisationsOf(item.group) = { "3D" }

\* C23: shell placement.  For a shell of thickness t > 0 and offset o, the
\* base-face copy of a point lies at o - t/2 along the point's normal and the
\* top-face copy at o + t/2, t further along the same normal, whichever
\* builder extruded the group (positions in half units).
C23_ShellPlacement ==
    sp_pc \in {"extrude_shell_memory", "med_extruder"} =>
        /\ sp_out.base = Scale(2 * sp_in.offset - sp_in.thickness, sp_in.normal)
        /\ sp_out.top = Scale(2 * sp_in.offset + sp_in.thickness, sp_in.normal)

\* two vectors of one direction and one sense
SameDirection(a, b) == Cross(a, b) = Zero3 /\ Dot(a, b) > 0

\* C24: the local frame of a beam segment is orthonormal and right-handed for
\* every tangent, the vertical ones included: y_axis and z_axis are
\* defined, the three axes are perpendicular to one another, and
\* x_axis x y_axis points along z_axis.  The frame depends on the tangent
\* only: a segment twice as long has the same axes.
C24_LocalFrame ==
    lf_pc = "done" =>
        /\ lf_frame.y_axis # Zero3 /\ lf_frame.z_axis # Zero3
        /\ Dot(lf_frame.x_axis, lf_frame.y_axis) = 0
        /\ Dot(lf_frame.x_axis, lf_frame.z_axis) = 0
        /\ Dot(lf_frame.y_axis, lf_frame.z_axis) = 0
        /\ Dot(Cross(lf_frame.x_axis, lf_frame.y_axis), lf_frame.z_axis) > 0
        /\ SameDirection(LocalFrame(Scale(2, lf_vec)).y_axis, lf_frame.y_axis)
        /\ SameDirection(LocalFrame(Scale(2, lf_vec)).z_axis, lf_frame.z_axis)

\* C24 witness: the frame of a segment pointing straight down has been
\* computed, with the Y axis as reference.
C24_Witness ==
    /\ lf_pc = "done"
    /\ lf_vec = <<0, 0, -1>>
    /\ lf_frame.y_axis = Cross(AxisY, lf_vec)

\* C25: in every component of the scene each connectivity tuple has as many
\* node ids as the element type the component declares: 2 for a line, 3 for
\* a triangle, 4 for a quad and a tetra, 8 for a hexa.
C25_TupleLength ==
    sc_handler = "med_to_vtk_pipeline" =>
        \A name \in DOMAIN final_cells :
            \A c \in DOMAIN final_cells[name].connectivity :
                Len(final_cells[name].connectivity[c])
                    = VTK_NODES_MAP(final_cells[name].vtk_type)

\* C28: the shell builder is invoked only for groups of surface elements
\* (triangles, quads) and the beam sweep only for groups of lines, whatever
\* category the configuration declares for the group.
C28_BuilderByCellType ==
    sc_handler = "med_to_vtk_pipeline" =>
        \A g \in DOMAIN sc_groups :
            /\ sc_groups[g].branch = "shell"
                  => sc_groups[g].cell_type \in {"triangle", "quad"}
            /\ sc_groups[g].branch = "beam" => sc_groups[g].cell_type = "line"

\* C27: the scene is append-only.  Every merge step keeps the points already
\* merged as a prefix of the merged points and keeps the stored connectivity
\* of every component already in the scene; the points handed to the
\* assembler are not changed.
C27_AppendOnly ==
    [][ sc_handler # "idle" =>
          /\ Len(ScenePoints') >= Len(ScenePoints)
          /\ SubSeq(ScenePoints', 1, Len(ScenePoints)) = ScenePoints
          /\ \A name \in DOMAIN SceneCells :
                /\ name \in DOMAIN SceneCells'
                /\ SceneCells'[name].connectivity = SceneCells[name].connectivity
          /\ pl_points' = pl_points ]_vars

\* C29: no component is overwritten.  In the single-file pipeline and in the
\* multi-file merges, the number of entries of `cells` is the number of
\* components produced.
C29_NoOverwrite ==
    sc_handler # "idle" => Cardinality(DOMAIN SceneCells) = sc_produced

====
